---------------------------- MODULE Spec2Model ----------------------------
(***************************************************************************)
(* Model of apps/backend/src/lib/metamcp/client.ts: the address normalizer *)
(* (transformDockerUrl), the transport factory and client builder          *)
(* (createMetaMcpClient), the connection establisher                       *)
(* (connectMetaMcpClient) and the cleanup closure of the handle it returns.*)
(*                                                                         *)
(* The protocol client and the transport are SDK objects.  They are        *)
(* modelled as recording mocks: every call the code makes on them, and     *)
(* every settlement of such a call, is appended to log[u]; whether a call  *)
(* resolves or rejects is chosen by the environment.                       *)
(***************************************************************************)
EXTENDS Integers, Sequences, FiniteSets, TLC

(***************************************************************************)
(* Bounds of the model.                                                    *)
(***************************************************************************)
\* number of client/transport pairs (upstream servers) that exist
NumUpstreams == 2
\* number of times the caller invokes the cleanup of one handle
NumCleanups == 2

\* number of calls of createMetaMcpClient made one after the other
NumCalls == 2

Upstreams == 1..NumUpstreams
FactoryCalls == 1..NumCalls
Invocations == 1..NumCleanups

\* the upstream whose establishment the single-run specification Spec follows
SingleRun == {1}

(***************************************************************************)
(* connectMetaMcpClient: constants of the retry loop.                      *)
(***************************************************************************)
waitFor == 2500
retries == 3

\* the value `by` of a log entry written by connectMetaMcpClient itself;
\* cleanup invocation i writes entries with by = i
Establisher == 0

VARIABLES
    pc,        \* pc[u]: where the call connectMetaMcpClient(client u, transport u) stands
    count,     \* count[u]: the local `count`
    retry,     \* retry[u]: the local `retry`
    result,    \* result[u]: what the call's promise settled to
    log,       \* log[u]: calls and settlements recorded by the mocks of pair u
    cpc,       \* cpc[u][i]: where invocation i of the handle's cleanup stands
    serverParams, \* the Server Parameters value handed to createMetaMcpClient
    env,       \* process.env.TRANSFORM_LOCALHOST_TO_DOCKER_INTERNAL
    created,   \* how the call createMetaMcpClient(serverParams) ended
    envAtStart, \* the value the environment variable had when the process started
    urlIn,     \* the argument of the call transformDockerUrl(url)
    urlOut,    \* what that call returned; None before the call
    callParams, \* callParams[c]: the Server Parameters of factory call c
    callResult, \* callResult[c]: how factory call c ended
    callRef,   \* callRef[c]: the headers object the transport of call c holds
    heap,      \* heap[o]: the content of headers object o; None before it exists
    consoleErrors \* consoleErrors[u]: the lines run u wrote with console.error

connectVars == <<pc, count, retry, result, log, cpc, consoleErrors>>
factoryVars == <<serverParams, env, created>>
normalizerVars == <<envAtStart, urlIn, urlOut>>
callVars == <<callParams, callResult, callRef, heap>>
vars == <<pc, count, retry, result, log, cpc, serverParams, env, created,
          envAtStart, urlIn, urlOut, callParams, callResult, callRef, heap,
          consoleErrors>>

(***************************************************************************)
(* Strings.  A string whose characters matter (a URL, a token, a header    *)
(* value) is a sequence of one-character strings.  An optional value is a   *)
(* sequence of length 0 (undefined) or 1 (the value).                      *)
(***************************************************************************)
None == <<>>
Some(v) == <<v>>

s_http == <<"h", "t", "t", "p">>
s_https == <<"h", "t", "t", "p", "s">>
s_ws == <<"w", "s">>
s_wss == <<"w", "s", "s">>
s_ftp == <<"f", "t", "p">>
s_httpSlashes == <<"h", "t", "t", "p", ":", "/", "/">>
s_localhost == <<"l", "o", "c", "a", "l", "h", "o", "s", "t">>
s_local == <<"l", "o", "c", "a", "l">>
s_loopback == <<"1", "2", "7", ".", "0", ".", "0", ".", "1">>
s_dockerHost == <<"h", "o", "s", "t", ".", "d", "o", "c", "k", "e", "r", ".",
                  "i", "n", "t", "e", "r", "n", "a", "l">>
s_port == <<":", "3", "0", "0", "0">>
s_path == <<"/", "m", "c", "p">>
s_tok123 == <<"t", "o", "k", "1", "2", "3">>
s_undefined == <<"u", "n", "d", "e", "f", "i", "n", "e", "d">>
s_Bearer == <<"B", "e", "a", "r", "e", "r", " ">>

Alpha == {"a", "b", "c", "d", "e", "f", "g", "h", "i", "j", "k", "l", "m",
          "n", "o", "p", "q", "r", "s", "t", "u", "v", "w", "x", "y", "z"}
Digit == {"0", "1", "2", "3", "4", "5", "6", "7", "8", "9"}

IsPrefix(p, s) == Len(p) <= Len(s) /\ SubSeq(s, 1, Len(p)) = p
Drop(s, n) == SubSeq(s, n + 1, Len(s))

\* the first position of s holding a character of cs; Len(s) + 1 when none
FirstIn(s, cs) ==
    IF \E k \in DOMAIN s : s[k] \in cs
    THEN CHOOSE k \in DOMAIN s : s[k] \in cs /\ \A j \in 1..(k - 1) : s[j] \notin cs
    ELSE Len(s) + 1

(***************************************************************************)
(* transformDockerUrl (lines 22-33).                                       *)
(***************************************************************************)
\* url.replace(/localhost|127\.0\.0\.1/g, "host.docker.internal") (lines
\* 24-27): the matches are found left to right in the input, never in the
\* text already written
RECURSIVE ReplaceLoopback(_)
ReplaceLoopback(s) ==
    IF s = <<>> THEN <<>>
    ELSE IF IsPrefix(s_localhost, s)
         THEN s_dockerHost \o ReplaceLoopback(Drop(s, Len(s_localhost)))
    ELSE IF IsPrefix(s_loopback, s)
         THEN s_dockerHost \o ReplaceLoopback(Drop(s, Len(s_loopback)))
    ELSE <<Head(s)>> \o ReplaceLoopback(Tail(s))

\* line 23 testing the variable for truthiness: any non-empty value, "false"
\* too, turns the rewrite on
transformDockerUrl_Truthy(url, e) ==
    IF e # None /\ e[1] # "" THEN ReplaceLoopback(url) ELSE url

\* lines 22-33; e is the value of the environment variable when the call is
\* made (line 23 reads it on every call)
transformDockerUrl(url, e) ==
    IF e = Some("true") THEN ReplaceLoopback(url) ELSE url

(***************************************************************************)
(* new URL(string) (lines 73, 78, 93, 98): the platform's URL parser,      *)
(* without a base URL.  It is modelled for strings over lower-case         *)
(* letters, digits and the characters . : / only (no credentials, no       *)
(* brackets, no percent-escapes, no query, no upper case, no numbers       *)
(* written in octal or hexadecimal), which is what UrlTokens produces.     *)
(***************************************************************************)
SpecialSchemes == {s_http, s_https, s_ws, s_wss, s_ftp}
SchemeChars == Alpha \cup Digit \cup {"+", "-", "."}

RECURSIVE DecimalValue(_)
DecimalValue(ds) ==
    IF ds = <<>> THEN 0
    ELSE LET d == CHOOSE n \in 0..9 :
                      <<"0", "1", "2", "3", "4", "5", "6", "7", "8", "9">>[n + 1] = ds[Len(ds)]
         IN  10 * DecimalValue(SubSeq(ds, 1, Len(ds) - 1)) + d

AllDigits(ds) == \A k \in DOMAIN ds : ds[k] \in Digit

RECURSIVE StripZeros(_)
StripZeros(ds) == IF ds # <<>> /\ Head(ds) = "0" THEN StripZeros(Tail(ds)) ELSE ds

\* the port state: digits only, whose decimal value is at most 65535; the
\* empty port is allowed
PortOk(p) ==
    /\ AllDigits(p)
    /\ Len(StripZeros(p)) <= 5
    /\ DecimalValue(StripZeros(p)) <= 65535

\* the labels of a host, split at "."
RECURSIVE Labels(_)
Labels(h) ==
    LET dot == FirstIn(h, {"."})
    IN  IF dot > Len(h) THEN <<h>>
        ELSE <<SubSeq(h, 1, dot - 1)>> \o Labels(Drop(h, dot))

\* the labels with one trailing empty label dropped
HostParts(h) ==
    LET ls == Labels(h)
    IN  IF Len(ls) > 1 /\ ls[Len(ls)] = <<>> THEN SubSeq(ls, 1, Len(ls) - 1) ELSE ls

IsNumber(l) == l # <<>> /\ AllDigits(l)

\* "ends in a number" and the IPv4 parser: a host whose last label is a
\* number must be a valid IPv4 address
EndsInNumber(h) == LET ps == HostParts(h) IN IsNumber(ps[Len(ps)])

\* a decimal number below 256
Below256(l) == Len(l) <= 3 /\ DecimalValue(l) < 256

\* the last part of an address of n parts is below 256^(5 - n)
LastPartOk(l, n) ==
    IF n = 4 THEN Below256(l)
    ELSE IF n = 3 THEN Len(l) <= 5 /\ DecimalValue(l) < 65536
    ELSE IF n = 2 THEN Len(l) <= 8 /\ DecimalValue(l) < 16777216
    ELSE \/ Len(l) <= 9
         \/ /\ Len(l) = 10
            /\ LET hi == DecimalValue(SubSeq(l, 1, 9))
                   lo == DecimalValue(SubSeq(l, 10, 10))
               IN  hi < 429496729 \/ (hi = 429496729 /\ lo < 6)

IPv4Ok(h) ==
    LET ps == HostParts(h)
        n == Len(ps)
    IN  /\ n <= 4
        /\ \A k \in 1..n : IsNumber(ps[k])
        /\ \A k \in 1..(n - 1) : Below256(ps[k])
        /\ LastPartOk(ps[n], n)

\* the host parser for a special scheme: not empty, and an IPv4 address if it
\* ends in a number
DomainOk(h) == h # <<>> /\ (EndsInNumber(h) => IPv4Ok(h))

\* the authority (host and optional port) and what follows it
AuthorityOf(a) == SubSeq(a, 1, FirstIn(a, {"/", "?", "#"}) - 1)
HostOf(a) == SubSeq(AuthorityOf(a), 1, FirstIn(AuthorityOf(a), {":"}) - 1)
HasPort(a) == FirstIn(AuthorityOf(a), {":"}) <= Len(AuthorityOf(a))
PortOf(a) == Drop(AuthorityOf(a), FirstIn(AuthorityOf(a), {":"}))

RECURSIVE StripSlashes(_)
StripSlashes(r) == IF r # <<>> /\ Head(r) = "/" THEN StripSlashes(Tail(r)) ELSE r

\* TRUE when new URL(s) returns a URL, FALSE when it throws TypeError
CanParseUrl(s) ==
    LET colon == FirstIn(s, {":"})
        scheme == SubSeq(s, 1, colon - 1)
        rest == Drop(s, colon)
    IN  /\ colon <= Len(s)
        /\ scheme # <<>>
        /\ scheme[1] \in Alpha
        /\ \A k \in DOMAIN scheme : scheme[k] \in SchemeChars
        /\ IF scheme \in SpecialSchemes
           THEN LET a == StripSlashes(rest)
                IN  DomainOk(HostOf(a)) /\ PortOk(PortOf(a))
           ELSE IF IsPrefix(<<"/", "/">>, rest)
           THEN LET a == Drop(rest, 2)
                IN  (HasPort(a) => HostOf(a) # <<>>) /\ PortOk(PortOf(a))
           ELSE TRUE

\* the port as the serializer writes it: no leading zeros
CanonicalPort(p) == IF p # <<>> /\ StripZeros(p) = <<>> THEN <<"0">> ELSE StripZeros(p)

\* the default port of a special scheme, which the serializer omits
DefaultPort(scheme) ==
    IF scheme \in {s_http, s_ws} THEN <<"8", "0">>
    ELSE IF scheme \in {s_https, s_wss} THEN <<"4", "4", "3">>
    ELSE <<"2", "1">>

\* the href of the URL object new URL(s) returns, for s with CanParseUrl(s):
\* a special URL is written scheme://host[:port]path with the path "/" when
\* empty (a four-part decimal IPv4 host is written as it was read)
UrlHref(s) ==
    LET colon == FirstIn(s, {":"})
        scheme == SubSeq(s, 1, colon - 1)
        rest == Drop(s, colon)
    IN  IF scheme \in SpecialSchemes
        THEN LET a == StripSlashes(rest)
                 port == CanonicalPort(PortOf(a))
                 path == Drop(a, Len(AuthorityOf(a)))
             IN  scheme \o <<":", "/", "/">> \o HostOf(a)
                   \o (IF port = <<>> \/ port = DefaultPort(scheme) THEN <<>> ELSE <<":">> \o port)
                   \o (IF path = <<>> THEN <<"/">> ELSE path)
        ELSE IF IsPrefix(<<"/", "/">>, rest)
        THEN LET a == Drop(rest, 2)
                 port == CanonicalPort(PortOf(a))
             IN  scheme \o <<":", "/", "/">> \o HostOf(a)
                   \o (IF port = <<>> THEN <<>> ELSE <<":">> \o port)
                   \o Drop(a, Len(AuthorityOf(a)))
        ELSE s

(***************************************************************************)
(* createMetaMcpClient (lines 35-123).                                     *)
(***************************************************************************)
\* JavaScript truthiness of an optional string: undefined and "" are falsy
TruthyStr(opt) == opt # None /\ opt[1] # ""
\* the same for a string kept as a sequence of characters
TruthyChars(opt) == opt # None /\ opt[1] # <<>>

\* `${x}` (lines 77, 97): undefined is written "undefined"
TemplateString(opt) == IF opt = None THEN s_undefined ELSE opt[1]

\* lines 47-53: new StdioClientTransport(stdioParams)
StdioTransport(p) ==
    [kind |-> "stdio",
     command |-> IF TruthyStr(p.command) THEN p.command[1] ELSE "",
     args |-> p.args,
     stderr |-> "ignore",
     url |-> None,
     requestInitHeaders |-> None,
     eventSourceHeaders |-> None]

\* lines 72 and 92 with the test made on the token: an empty token counts as
\* no credential
HasCredential_NonEmpty(p) ==
    p.oauth_tokens # None /\ TruthyChars(p.oauth_tokens[1].access_token)

\* lines 72 and 92: `!serverParams.oauth_tokens` is false for every object,
\* whatever its access_token
HasCredential(p) == p.oauth_tokens # None

\* lines 75-77 and 95-97: the header map built from the credential
AuthHeaders(p) ==
    [Authorization |-> s_Bearer \o TemplateString(p.oauth_tokens[1].access_token)]

\* lines 72-86 without eventSourceInit: the headers go to requestInit only
SseTransport_RequestInitOnly(p, transformedUrl) ==
    [kind |-> "sse",
     command |-> "",
     args |-> None,
     stderr |-> "",
     url |-> Some(UrlHref(transformedUrl)),
     requestInitHeaders |-> IF p.oauth_tokens # None THEN Some(AuthHeaders(p)) ELSE None,
     eventSourceHeaders |-> None]

\* lines 72-86: new SSEClientTransport(new URL(transformedUrl)[, options]);
\* the headers go to requestInit and to the fetch of eventSourceInit
SseTransport(p, transformedUrl) ==
    [kind |-> "sse",
     command |-> "",
     args |-> None,
     stderr |-> "",
     url |-> Some(UrlHref(transformedUrl)),
     requestInitHeaders |-> IF HasCredential(p) THEN Some(AuthHeaders(p)) ELSE None,
     eventSourceHeaders |-> IF HasCredential(p) THEN Some(AuthHeaders(p)) ELSE None]

\* lines 92-103: new StreamableHTTPClientTransport(new URL(transformedUrl)[,
\* options]); the headers go to requestInit only
StreamableHttpTransport(p, transformedUrl) ==
    [kind |-> "streamableHttp",
     command |-> "",
     args |-> None,
     stderr |-> "",
     url |-> Some(UrlHref(transformedUrl)),
     requestInitHeaders |-> IF HasCredential(p) THEN Some(AuthHeaders(p)) ELSE None,
     eventSourceHeaders |-> None]

\* the kinds of request an HTTP transport issues: the POST of a message (the
\* handshake included) and the GET that opens or reopens the event stream
RequestKinds == {"post", "eventStream"}

\* the headers option that configures requests of kind k of transport t: the
\* event-stream transport reads its stream through eventSourceInit.fetch
\* (lines 82-84) and posts with requestInit (lines 79-81); the streamable
\* transport has the one option requestInit for both (lines 99-101)
RequestHeaders(t, k) ==
    IF t.kind = "sse" /\ k = "eventStream" THEN t.eventSourceHeaders
    ELSE t.requestInitHeaders

\* lines 109-121: new Client(identity, capabilities)
NewClient ==
    [name |-> "metamcp-client", version |-> "2.0.0",
     capabilities |-> {"prompts", "resources.subscribe", "tools"}]

\* how a call of createMetaMcpClient ends
NotCalled == [status |-> "notCalled", client |-> None, transport |-> None]
\* line 122: return { client, transport }
Returned(t) == [status |-> "returned", client |-> Some(NewClient), transport |-> Some(t)]
\* line 106: return { client: undefined, transport: undefined }
ReturnedNothing == [status |-> "returned", client |-> None, transport |-> None]
\* new URL threw TypeError (Invalid URL); nothing in the function catches it
Threw == [status |-> "threw", client |-> None, transport |-> None]

\* lines 73, 78, 93, 98: new URL(transformedUrl) throws on a string that is
\* not a URL, and the exception leaves createMetaMcpClient
UrlAccepted(transformedUrl) == CanParseUrl(transformedUrl)

\* lines 35-123 without the default of line 42: an unset type is unsupported
createMetaMcpClient_NoDefault(p, e) ==
    IF p.type = Some("STDIO")
    THEN Returned(StdioTransport(p))
    ELSE IF p.type = Some("SSE") /\ TruthyChars(p.url) /\ UrlAccepted(transformDockerUrl(p.url[1], e))
    THEN Returned(SseTransport(p, transformDockerUrl(p.url[1], e)))
    ELSE IF p.type = Some("STREAMABLE_HTTP") /\ TruthyChars(p.url)
            /\ UrlAccepted(transformDockerUrl(p.url[1], e))
    THEN Returned(StreamableHttpTransport(p, transformDockerUrl(p.url[1], e)))
    ELSE IF p.type \in {Some("SSE"), Some("STREAMABLE_HTTP")} /\ TruthyChars(p.url)
    THEN Threw
    ELSE ReturnedNothing

\* lines 35-123; e is the value of the environment variable during the call
createMetaMcpClient(p, e) ==
    IF ~TruthyStr(p.type) \/ p.type = Some("STDIO")
    THEN Returned(StdioTransport(p))
    ELSE IF p.type = Some("SSE") /\ TruthyChars(p.url)
    THEN LET transformedUrl == transformDockerUrl(p.url[1], e)
         IN  IF UrlAccepted(transformedUrl)
             THEN Returned(SseTransport(p, transformedUrl))
             ELSE Threw
    ELSE IF p.type = Some("STREAMABLE_HTTP") /\ TruthyChars(p.url)
    THEN LET transformedUrl == transformDockerUrl(p.url[1], e)
         IN  IF UrlAccepted(transformedUrl)
             THEN Returned(StreamableHttpTransport(p, transformedUrl))
             ELSE Threw
    ELSE ReturnedNothing

(***************************************************************************)
(* The Server Parameters values and environments the factory is run on.    *)
(***************************************************************************)
\* the longest URL, in tokens
MaxUrlTokens == 3

UrlTokens == {s_httpSlashes, s_localhost, s_local, s_loopback, s_port, s_path}

RECURSIVE Concat(_)
Concat(ts) == IF ts = <<>> THEN <<>> ELSE Head(ts) \o Concat(Tail(ts))

\* every string of at most m tokens, the empty string included
UrlsUpTo(m) == {Concat(ts) : ts \in UNION {[1..n -> UrlTokens] : n \in 0..m}}

\* the url values of the Server Parameters
Urls == UrlsUpTo(MaxUrlTokens)

\* the arguments transformDockerUrl is run on: one token more, so that a URL
\* with a scheme, a host and a path of two tokens is among them
NormalizerUrls == UrlsUpTo(MaxUrlTokens + 1)

Types == {None, Some(""), Some("STDIO"), Some("SSE"), Some("STREAMABLE_HTTP"),
          Some("WEBSOCKET")}

\* the subprocess fields: absent, command only, command and arguments
StdioFields == {[command |-> None, args |-> None],
                [command |-> Some("echo"), args |-> None],
                [command |-> Some("echo"), args |-> Some(<<"ok">>)]}

OAuthTokens == {None, Some([access_token |-> Some(s_tok123)]),
                Some([access_token |-> Some(<<>>)])}

ServerParametersSet ==
    {[type |-> t, command |-> c.command, args |-> c.args, url |-> u, oauth_tokens |-> o] :
        t \in Types, c \in StdioFields, u \in {None} \cup {Some(x) : x \in Urls},
        o \in OAuthTokens}

\* values of the environment variable: unset, "true", "false"
EnvValues == {None, Some("true"), Some("false")}

\* line 69 (and 89) moved before the branch of line 42: the normalizer is
\* called whenever a url is present
CallsNormalizer_BeforeBranch(p) == TruthyChars(p.url)

\* lines 67-69 and 87-89: transformDockerUrl(serverParams.url) is called in the
\* SSE and the STREAMABLE_HTTP branch only, which a truthy url enters
CallsNormalizer(p) ==
    /\ TruthyStr(p.type)
    /\ p.type \in {Some("SSE"), Some("STREAMABLE_HTTP")}
    /\ TruthyChars(p.url)

\* the caller calls createMetaMcpClient(serverParams); the call of
\* transformDockerUrl it makes, if any, is recorded in urlIn and urlOut
CreateClient ==
    /\ created = NotCalled
    /\ created' = createMetaMcpClient(serverParams, env)
    /\ IF CallsNormalizer(serverParams)
       THEN /\ urlIn' = serverParams.url[1]
            /\ urlOut' = Some(transformDockerUrl(serverParams.url[1], env))
       ELSE UNCHANGED <<urlIn, urlOut>>
    /\ UNCHANGED <<serverParams, env, envAtStart, connectVars, callVars>>

(***************************************************************************)
(* Values.                                                                 *)
(***************************************************************************)
\* the promise has not settled
Pending == [kind |-> "pending"]
\* line 138 returning a client constructed anew, not the one passed in
Handle_Rebuilt(c) == [kind |-> "handle", client |-> c + NumUpstreams]

\* `return { client, cleanup }` (line 138): the handle holds the client passed in
Handle(c) == [kind |-> "handle", client |-> c]

\* the implicit `return undefined` when the while loop ends (line 158)
Undefined == [kind |-> "undefined"]
\* the promise rejected: an exception left the function
Rejected == [kind |-> "rejected"]

\* a mock's record of a call made on it
CallEv(op, by) == [ev |-> "call", op |-> op, by |-> by, ok |-> TRUE, ms |-> 0]
\* a mock's record of sleep(ms) being called
SleepEv(ms) == [ev |-> "call", op |-> "sleep", by |-> Establisher, ok |-> TRUE, ms |-> ms]
\* a mock's record of a call settling: ok = resolved, ~ok = rejected
RetEv(op, by, ok) == [ev |-> "ret", op |-> op, by |-> by, ok |-> ok, ms |-> 0]

\* the calls land on the one client and transport of pair 1, whichever
\* pair the run was given
Record_OnFirstPair(u, evs) == log' = [log EXCEPT ![1] = @ \o evs]

Record(u, evs) == log' = [log EXCEPT ![u] = @ \o evs]

\* the names of the upstream servers the pairs were built for
UpstreamName(u) == "upstream-" \o ToString(u)

\* what the mock of client.connect rejects with, written as `${error}` writes it
ConnectError == "Error: connect failed"

\* line 146: console.error(`Error connecting to MetaMCP client: ${error}`),
\* as the parts the line is made of.  The function is given a client and a
\* transport and nothing that names the upstream (lines 125-128).  The mock
\* of the console keeps the lines of each run apart.
ConsoleError(error) == <<"Error connecting to MetaMCP client: ", error>>

(***************************************************************************)
(* connectMetaMcpClient (lines 125-159).                                   *)
(*                                                                         *)
(* pc values are the places where the async function is suspended or has   *)
(* finished:                                                               *)
(*   Idle        not yet called                                            *)
(*   Connecting  at `await client.connect(transport)`       (line 136)     *)
(*   Closing     at `await client.close()` in the catch     (line 151)     *)
(*   Backoff     at `await sleep(waitFor)`                  (line 155)     *)
(*   Connected   returned the handle                        (line 138)     *)
(*   Failed      loop ended, returned undefined             (line 158)     *)
(*   Threw       an exception left the function (promise rejected)         *)
(***************************************************************************)

\* line 148 with the comparison off by one
RetryAfterFailure_OffByOne(c) == c <= retries

\* line 148: retry = count < retries
RetryAfterFailure(c) == c < retries

\* lines 129-136: the locals are initialised, the loop is entered and the
\* first client.connect(transport) is issued
Call(u) ==
    /\ pc[u] = "Idle"
    /\ count' = [count EXCEPT ![u] = 0]
    /\ retry' = [retry EXCEPT ![u] = TRUE]
    /\ pc' = [pc EXCEPT ![u] = "Connecting"]
    /\ Record(u, <<CallEv("client.connect", Establisher)>>)
    /\ UNCHANGED <<result, cpc, factoryVars, normalizerVars, callVars, consoleErrors>>

\* lines 136-144 without the return: the loop goes round again after a success
ConnectResolves_NoReturn(u) ==
    /\ pc[u] = "Connecting"
    /\ pc' = [pc EXCEPT ![u] = "Connecting"]
    /\ Record(u, <<RetEv("client.connect", Establisher, TRUE),
                   CallEv("client.connect", Establisher)>>)
    /\ UNCHANGED <<count, retry, result, cpc, factoryVars, normalizerVars, callVars, consoleErrors>>

\* lines 136-144: client.connect resolved; the handle is returned
ConnectResolves(u) ==
    /\ pc[u] = "Connecting"
    /\ pc' = [pc EXCEPT ![u] = "Connected"]
    /\ result' = [result EXCEPT ![u] = Handle(u)]
    /\ Record(u, <<RetEv("client.connect", Establisher, TRUE)>>)
    /\ UNCHANGED <<count, retry, cpc, factoryVars, normalizerVars, callVars, consoleErrors>>

\* lines 145-157 with the close and the wait outside `if (retry)`: the last
\* failure is followed by a close and a wait as well
ConnectRejects_AlwaysBacksOff(u) ==
    /\ pc[u] = "Connecting"
    /\ count' = [count EXCEPT ![u] = count[u] + 1]
    /\ retry' = [retry EXCEPT ![u] = count[u] + 1 < retries]
    /\ pc' = [pc EXCEPT ![u] = "Closing"]
    /\ Record(u, <<RetEv("client.connect", Establisher, FALSE),
                   CallEv("client.close", Establisher)>>)
    /\ consoleErrors' = [consoleErrors EXCEPT ![u] = Append(@, ConsoleError(ConnectError))]
    /\ UNCHANGED <<result, cpc, factoryVars, normalizerVars, callVars>>

\* lines 145-151 and 158: client.connect rejected; the error is written to
\* the console (line 146), count++, retry is recomputed, and either
\* client.close() is issued or the loop ends
ConnectRejects(u) ==
    /\ pc[u] = "Connecting"
    /\ LET c == count[u] + 1
           r == RetryAfterFailure(c)
       IN  /\ count' = [count EXCEPT ![u] = c]
           /\ retry' = [retry EXCEPT ![u] = r]
           /\ IF r
              THEN /\ pc' = [pc EXCEPT ![u] = "Closing"]
                   /\ Record(u, <<RetEv("client.connect", Establisher, FALSE),
                                  CallEv("client.close", Establisher)>>)
                   /\ UNCHANGED result
              ELSE /\ pc' = [pc EXCEPT ![u] = "Failed"]
                   /\ Record(u, <<RetEv("client.connect", Establisher, FALSE)>>)
                   /\ result' = [result EXCEPT ![u] = Undefined]
    /\ consoleErrors' = [consoleErrors EXCEPT ![u] = Append(@, ConsoleError(ConnectError))]
    /\ UNCHANGED <<cpc, factoryVars, normalizerVars, callVars>>

\* lines 150-155 without the inner try/catch: a rejection of client.close()
\* leaves the function
CloseSettled_Unswallowed(u, ok) ==
    /\ IF ok
       THEN /\ pc' = [pc EXCEPT ![u] = "Backoff"]
            /\ Record(u, <<RetEv("client.close", Establisher, TRUE), SleepEv(waitFor)>>)
            /\ UNCHANGED result
       ELSE /\ pc' = [pc EXCEPT ![u] = "Threw"]
            /\ Record(u, <<RetEv("client.close", Establisher, FALSE)>>)
            /\ result' = [result EXCEPT ![u] = Rejected]
    /\ UNCHANGED <<count, retry, cpc, factoryVars, normalizerVars, callVars, consoleErrors>>

\* lines 150-155 without the sleep: the next attempt follows the close at once
CloseSettled_NoWait(u, ok) ==
    /\ pc' = [pc EXCEPT ![u] = "Connecting"]
    /\ Record(u, <<RetEv("client.close", Establisher, ok),
                   CallEv("client.connect", Establisher)>>)
    /\ UNCHANGED <<count, retry, result, cpc, factoryVars, normalizerVars, callVars, consoleErrors>>

\* lines 150-155 where a rejected client.close() is caught by the outer catch
\* of a nested loop iteration and so counted as one more failed attempt
CloseSettled_CountsFailure(u, ok) ==
    /\ pc' = [pc EXCEPT ![u] = "Backoff"]
    /\ count' = [count EXCEPT ![u] = IF ok THEN @ ELSE @ + 1]
    /\ Record(u, <<RetEv("client.close", Establisher, ok), SleepEv(waitFor)>>)
    /\ UNCHANGED <<retry, result, cpc, factoryVars, normalizerVars, callVars, consoleErrors>>

\* lines 150-155: the best-effort client.close() settled.  A rejection is
\* caught by the empty catch of lines 152-154; either way sleep(waitFor) is
\* issued next.
CloseSettled(u, ok) ==
    /\ pc' = [pc EXCEPT ![u] = "Backoff"]
    /\ Record(u, <<RetEv("client.close", Establisher, ok), SleepEv(waitFor)>>)
    /\ UNCHANGED <<count, retry, result, cpc, factoryVars, normalizerVars, callVars, consoleErrors>>

CloseSettles(u) ==
    /\ pc[u] = "Closing"
    /\ \E ok \in BOOLEAN : CloseSettled(u, ok)

\* lines 155, 134-136: the timer fired; `while (retry)` is re-evaluated (retry
\* is true whenever the sleep was reached) and client.connect is issued again
SleepFires(u) ==
    /\ pc[u] = "Backoff"
    /\ IF retry[u]
       THEN /\ pc' = [pc EXCEPT ![u] = "Connecting"]
            /\ Record(u, <<RetEv("sleep", Establisher, TRUE),
                           CallEv("client.connect", Establisher)>>)
            /\ UNCHANGED result
       ELSE /\ pc' = [pc EXCEPT ![u] = "Failed"]
            /\ Record(u, <<RetEv("sleep", Establisher, TRUE)>>)
            /\ result' = [result EXCEPT ![u] = Undefined]
    /\ UNCHANGED <<count, retry, cpc, factoryVars, normalizerVars, callVars, consoleErrors>>

(***************************************************************************)
(* The cleanup closure of the returned handle (lines 140-143).             *)
(*                                                                         *)
(* cpc[u][i] is where invocation i stands:                                 *)
(*   NotCalled         the caller has not made this invocation             *)
(*   TransportClosing  at `await transport.close()`         (line 141)     *)
(*   ClientClosing     at `await client.close()`            (line 142)     *)
(*   Done              the invocation's promise resolved                   *)
(*   Raised            the invocation's promise rejected                   *)
(***************************************************************************)
\* lines 141 and 142 exchanged: cleanup issues client.close() first
CleanupCalled_ClientFirst(u, i) ==
    /\ pc[u] = "Connected"
    /\ cpc[u][i] = "NotCalled"
    /\ \A j \in Invocations : j < i => cpc[u][j] # "NotCalled"
    /\ cpc' = [cpc EXCEPT ![u][i] = "ClientClosing"]
    /\ Record(u, <<CallEv("client.close", i)>>)
    /\ UNCHANGED <<pc, count, retry, result, factoryVars, normalizerVars, callVars, consoleErrors>>

\* line 140-141: the caller invokes handle.cleanup(); it runs up to its first
\* await, issuing transport.close()
CleanupCalled(u, i) ==
    /\ pc[u] = "Connected"
    /\ cpc[u][i] = "NotCalled"
    /\ \A j \in Invocations : j < i => cpc[u][j] # "NotCalled"
    /\ cpc' = [cpc EXCEPT ![u][i] = "TransportClosing"]
    /\ Record(u, <<CallEv("transport.close", i)>>)
    /\ UNCHANGED <<pc, count, retry, result, factoryVars, normalizerVars, callVars, consoleErrors>>

\* lines 141-142 with client.close() in a finally block: it is issued
\* whether transport.close() resolved or rejected
TransportCloseSettled_Finally(u, i, ok) ==
    /\ cpc' = [cpc EXCEPT ![u][i] = "ClientClosing"]
    /\ Record(u, <<RetEv("transport.close", i, ok), CallEv("client.close", i)>>)
    /\ UNCHANGED <<pc, count, retry, result, factoryVars, normalizerVars, callVars, consoleErrors>>

\* lines 141-142: transport.close() settled; on success client.close() is
\* issued, on failure the rejection leaves cleanup
TransportCloseSettled(u, i, ok) ==
    /\ IF ok
       THEN /\ cpc' = [cpc EXCEPT ![u][i] = "ClientClosing"]
            /\ Record(u, <<RetEv("transport.close", i, TRUE),
                           CallEv("client.close", i)>>)
       ELSE /\ cpc' = [cpc EXCEPT ![u][i] = "Raised"]
            /\ Record(u, <<RetEv("transport.close", i, FALSE)>>)
    /\ UNCHANGED <<pc, count, retry, result, factoryVars, normalizerVars, callVars, consoleErrors>>

TransportCloseSettles(u, i) ==
    /\ cpc[u][i] = "TransportClosing"
    /\ \E ok \in BOOLEAN : TransportCloseSettled(u, i, ok)

\* lines 142-143: client.close() settled; cleanup resolves or rejects with it
ClientCloseSettled(u, i, ok) ==
    /\ cpc' = [cpc EXCEPT ![u][i] = IF ok THEN "Done" ELSE "Raised"]
    /\ Record(u, <<RetEv("client.close", i, ok)>>)
    /\ UNCHANGED <<pc, count, retry, result, factoryVars, normalizerVars, callVars, consoleErrors>>

ClientCloseSettles(u, i) ==
    /\ cpc[u][i] = "ClientClosing"
    /\ \E ok \in BOOLEAN : ClientCloseSettled(u, i, ok)

(***************************************************************************)
(* Calls of transformDockerUrl while the process runs.                     *)
(***************************************************************************)
\* some code of the process assigns process.env.TRANSFORM_LOCALHOST_TO_DOCKER_INTERNAL
\* after the start; line 23 reads the variable, nothing in the file copies it
SetEnv ==
    /\ urlOut = None
    /\ \E v \in EnvValues \ {env} : env' = v
    /\ UNCHANGED <<envAtStart, urlIn, urlOut, serverParams, created, connectVars, callVars>>

\* lines 22-33: the call transformDockerUrl(urlIn)
Transform ==
    /\ urlOut = None
    /\ urlOut' = Some(transformDockerUrl(urlIn, env))
    /\ UNCHANGED <<envAtStart, urlIn, factoryVars, connectVars, callVars>>

\* no call of transformDockerUrl is followed
InitNormalizerVars ==
    /\ envAtStart = env
    /\ urlIn = <<>>
    /\ urlOut = None

(***************************************************************************)
(* Several calls of createMetaMcpClient in one process.                    *)
(***************************************************************************)
s_tok456 == <<"t", "o", "k", "4", "5", "6">>
s_mcpUrl == s_httpSlashes \o s_localhost \o s_port \o s_path

\* the Server Parameters of the calls: an HTTP or subprocess upstream, with
\* no credential or one of two
CallParamsSet ==
    {[type |-> Some(t), command |-> Some("echo"), args |-> None, url |-> Some(s_mcpUrl),
      oauth_tokens |-> o] :
        t \in {"STDIO", "SSE", "STREAMABLE_HTTP"},
        o \in {None, Some([access_token |-> Some(s_tok123)]),
                     Some([access_token |-> Some(s_tok456)])}}

\* lines 75 and 95 with the object hoisted out of the function: every call
\* writes the same headers object
HeadersObject_Shared(c) == 1

\* lines 75 and 95: `const headers = {}` makes a new object in every call;
\* the object of call c is named c
HeadersObject(c) == c

\* lines 35-123: call c of createMetaMcpClient.  When it builds a transport
\* with a credential, the header map is written into the call's headers
\* object (lines 75-77, 95-97), which the transport keeps (lines 78-85,
\* 98-102)
FactoryCall(c) ==
    /\ callResult[c] = NotCalled
    /\ LET r == createMetaMcpClient(callParams[c], env)
           o == HeadersObject(c)
       IN  /\ callResult' = [callResult EXCEPT ![c] = r]
           /\ IF r.transport # None /\ r.transport[1].requestInitHeaders # None
              THEN /\ heap' = [heap EXCEPT ![o] = r.transport[1].requestInitHeaders]
                   /\ callRef' = [callRef EXCEPT ![c] = Some(o)]
              ELSE UNCHANGED <<heap, callRef>>
    /\ UNCHANGED <<callParams, factoryVars, normalizerVars, connectVars>>

\* no call of createMetaMcpClient beside the one of `created` is followed
InitCallVars ==
    /\ callParams = [c \in FactoryCalls |-> CHOOSE q \in CallParamsSet : TRUE]
    /\ callResult = [c \in FactoryCalls |-> NotCalled]
    /\ callRef = [c \in FactoryCalls |-> None]
    /\ heap = [o \in FactoryCalls |-> None]

(***************************************************************************)
(* Specification of one establishment and the use of its handle.           *)
(***************************************************************************)
InitConnectVars ==
    /\ pc = [u \in Upstreams |-> "Idle"]
    /\ count = [u \in Upstreams |-> 0]
    /\ retry = [u \in Upstreams |-> TRUE]
    /\ result = [u \in Upstreams |-> Pending]
    /\ log = [u \in Upstreams |-> <<>>]
    /\ cpc = [u \in Upstreams |-> [i \in Invocations |-> "NotCalled"]]
    /\ consoleErrors = [u \in Upstreams |-> <<>>]

\* the pair handed to connectMetaMcpClient was built by createMetaMcpClient
\* from Server Parameters of a subprocess upstream
InitConnect ==
    /\ InitConnectVars
    /\ serverParams = [type |-> Some("STDIO"), command |-> Some("echo"),
                       args |-> Some(<<"ok">>), url |-> None, oauth_tokens |-> None]
    /\ env = None
    /\ created = createMetaMcpClient(serverParams, env)
    /\ InitNormalizerVars
    /\ InitCallVars

Next ==
    \E u \in SingleRun :
        \/ Call(u)
        \/ ConnectResolves(u)
        \/ ConnectRejects(u)
        \/ CloseSettles(u)
        \/ SleepFires(u)
        \/ \E i \in Invocations :
              \/ CleanupCalled(u, i)
              \/ TransportCloseSettles(u, i)
              \/ ClientCloseSettles(u, i)

Spec == InitConnect /\ [][Next]_vars

\* every client.connect and every client.close that was issued settles, and
\* the timer of sleep (lines 12-13) fires
Settling ==
    \A u \in SingleRun :
        /\ WF_vars(ConnectResolves(u) \/ ConnectRejects(u))
        /\ WF_vars(CloseSettles(u))
        /\ WF_vars(SleepFires(u))

SpecLive == Spec /\ Settling

(***************************************************************************)
(* Specification of the fan-out: connectMetaMcpClient is called once for   *)
(* each upstream and the runs interleave at their awaits.                  *)
(***************************************************************************)
NextFanOut ==
    \E u \in Upstreams :
        \/ Call(u)
        \/ ConnectResolves(u)
        \/ ConnectRejects(u)
        \/ CloseSettles(u)
        \/ SleepFires(u)

SpecFanOut == InitConnect /\ [][NextFanOut]_vars

(***************************************************************************)
(* Specification of the factory: one call of createMetaMcpClient on any of *)
(* the Server Parameters values, under any value of the environment        *)
(* variable.                                                               *)
(***************************************************************************)
InitFactory ==
    /\ InitConnectVars
    /\ serverParams \in ServerParametersSet
    /\ env \in EnvValues
    /\ created = NotCalled
    /\ InitNormalizerVars
    /\ InitCallVars

NextFactory == CreateClient

SpecFactory == InitFactory /\ [][NextFactory]_vars

(***************************************************************************)
(* Specification of the normalizer: the environment variable may be        *)
(* assigned after the start, then transformDockerUrl is called once on any *)
(* of the strings.                                                         *)
(***************************************************************************)
InitNormalizer ==
    /\ InitConnectVars
    /\ InitCallVars
    /\ serverParams = [type |-> None, command |-> None, args |-> None, url |-> None,
                       oauth_tokens |-> None]
    /\ created = NotCalled
    /\ env \in EnvValues
    /\ envAtStart = env
    /\ urlIn \in NormalizerUrls
    /\ urlOut = None

NextNormalizer == SetEnv \/ Transform

SpecNormalizer == InitNormalizer /\ [][NextNormalizer]_vars

(***************************************************************************)
(* Specification of a process that calls createMetaMcpClient NumCalls      *)
(* times, in any order, each call on Server Parameters of its own.         *)
(***************************************************************************)
InitCalls ==
    /\ InitConnectVars
    /\ serverParams = [type |-> None, command |-> None, args |-> None, url |-> None,
                       oauth_tokens |-> None]
    /\ created = NotCalled
    /\ env \in EnvValues
    /\ InitNormalizerVars
    /\ callParams \in [FactoryCalls -> CallParamsSet]
    /\ callResult = [c \in FactoryCalls |-> NotCalled]
    /\ callRef = [c \in FactoryCalls |-> None]
    /\ heap = [o \in FactoryCalls |-> None]

NextCalls == \E c \in FactoryCalls : FactoryCall(c)

SpecCalls == InitCalls /\ [][NextCalls]_vars

TypeOK ==
    /\ pc \in [Upstreams -> {"Idle", "Connecting", "Closing", "Backoff",
                             "Connected", "Failed", "Threw"}]
    /\ count \in [Upstreams -> 0..(retries + 1)]
    /\ retry \in [Upstreams -> BOOLEAN]
    /\ \A u \in Upstreams : result[u].kind \in {"pending", "handle", "undefined", "rejected"}
    /\ cpc \in [Upstreams -> [Invocations -> {"NotCalled", "TransportClosing",
                                              "ClientClosing", "Done", "Raised"}]]

(***************************************************************************)
(* What the mocks of pair u recorded.                                      *)
(***************************************************************************)
\* positions of log[u] holding a call of `op`
CallsOf(u, op) == {k \in DOMAIN log[u] : log[u][k].ev = "call" /\ log[u][k].op = op}

\* positions of log[u] holding a call made by connectMetaMcpClient itself
EstablisherCallsAt(u) ==
    {k \in DOMAIN log[u] : log[u][k].ev = "call" /\ log[u][k].by = Establisher}

\* positions of log[u] holding a call of `op` made by an invocation of cleanup
CleanupCallsOf(u, op) == {k \in CallsOf(u, op) : log[u][k].by \in Invocations}

\* positions of log[u] where a call of `op` made by `by` settled with outcome ok
SettledAt(u, op, by, ok) == {k \in DOMAIN log[u] : log[u][k] = RetEv(op, by, ok)}

\* positions of log[u] where a handshake (client.connect) settled
HandshakesAt(u) ==
    SettledAt(u, "client.connect", Establisher, TRUE) \cup
    SettledAt(u, "client.connect", Establisher, FALSE)

\* the n-th smallest element of a finite set of positions
RECURSIVE NthOf(_, _)
NthOf(S, n) ==
    LET m == CHOOSE x \in S : \A y \in S : x <= y
    IN  IF n = 1 THEN m ELSE NthOf(S \ {m}, n - 1)

\* the outcomes of the handshake attempts of run u, in order (TRUE = resolved)
ConnectOutcomes(u) ==
    [n \in 1..Cardinality(HandshakesAt(u)) |-> log[u][NthOf(HandshakesAt(u), n)].ok]

\* the operations connectMetaMcpClient invoked on the mocks, in order
EstablisherOps(u) ==
    [n \in 1..Cardinality(EstablisherCallsAt(u)) |-> log[u][NthOf(EstablisherCallsAt(u), n)].op]

\* positions where invocation i of cleanup finished (resolved or rejected)
CleanupEndedAt(u, i) ==
    SettledAt(u, "client.close", i, TRUE) \cup SettledAt(u, "client.close", i, FALSE)
        \cup SettledAt(u, "transport.close", i, FALSE)

\* positions where invocation i of cleanup started
CleanupStartedAt(u, i) ==
    {k \in CallsOf(u, "transport.close") : log[u][k].by = i}

\* invocation j of cleanup started while invocation i was suspended at an await
StartedDuring(u, i, j) ==
    \E a \in CleanupStartedAt(u, i), b \in CleanupStartedAt(u, j) :
        /\ a < b
        /\ \A e \in CleanupEndedAt(u, i) : b < e

\* invocation j of cleanup started after invocation i had finished
StartedAfter(u, i, j) ==
    \E e \in CleanupEndedAt(u, i), b \in CleanupStartedAt(u, j) : e < b


(***************************************************************************)
(* Claims about connectMetaMcpClient and cleanup.                          *)
(***************************************************************************)
\* a close of the client or of the transport was issued after position k
ClosedAfter(u, k) ==
    \E j \in CallsOf(u, "client.close") \cup CallsOf(u, "transport.close") : j > k

\* C1: when the handshake fails on all three attempts, connectMetaMcpClient
\* returns no handle, and every failed attempt, the third included, has been
\* followed by a close of the client/transport by the time it returns.
C1_ExhaustedLeavesNothingOpen ==
    \A u \in Upstreams :
        pc[u] = "Failed" =>
            /\ result[u] = Undefined
            /\ \A k \in SettledAt(u, "client.connect", Establisher, FALSE) : ClosedAfter(u, k)

\* C2: two invocations of cleanup made one after the other, both completing
\* without error, close the transport once and the client once.
C2_SequentialCleanupClosesOnce ==
    \A u \in Upstreams :
        (cpc[u][1] = "Done" /\ cpc[u][2] = "Done" /\ StartedAfter(u, 1, 2)) =>
            /\ Cardinality(CleanupCallsOf(u, "transport.close")) = 1
            /\ Cardinality(CleanupCallsOf(u, "client.close")) = 1

\* C3: when an invocation of cleanup starts while another is suspended at an
\* await, neither the transport nor the client receives more than one close.
C3_ConcurrentCleanupNoDoubleClose ==
    \A u \in Upstreams :
        (\E i, j \in Invocations : i # j /\ StartedDuring(u, i, j)) =>
            /\ Cardinality(CleanupCallsOf(u, "transport.close")) <= 1
            /\ Cardinality(CleanupCallsOf(u, "client.close")) <= 1

\* C4: in one call of connectMetaMcpClient, client.connect is invoked at most
\* three times and the attempt counter never exceeds three.
C4_AtMostThreeAttempts ==
    \A u \in Upstreams :
        /\ Cardinality(CallsOf(u, "client.connect")) <= retries
        /\ count[u] <= retries

\* the third handshake was issued after an intermediate close had failed
C4_Witness ==
    \E u \in Upstreams :
        /\ Cardinality(CallsOf(u, "client.connect")) = 3
        /\ SettledAt(u, "client.close", Establisher, FALSE) # {}

\* C5: when the handshake fails on attempts 1 and 2 and succeeds on attempt 3,
\* the handle holding the client passed in is returned, after exactly two
\* intermediate client closes and two waits of the fixed delay: each failed
\* attempt is followed by one close, then one wait, then the next attempt.
C5_FailFailSucceed ==
    \A u \in Upstreams :
        ConnectOutcomes(u) = <<FALSE, FALSE, TRUE>> =>
            /\ pc[u] = "Connected"
            /\ result[u] = Handle(u)
            /\ EstablisherOps(u) = <<"client.connect", "client.close", "sleep",
                                     "client.connect", "client.close", "sleep",
                                     "client.connect">>
            /\ \A k \in CallsOf(u, "sleep") : log[u][k].ms = waitFor

\* the third attempt succeeded after two failures
C5_Witness ==
    \E u \in Upstreams :
        /\ ConnectOutcomes(u) = <<FALSE, FALSE, TRUE>>
        /\ pc[u] = "Connected"

\* C6: once a handshake has succeeded the handle is returned at once: the
\* establisher makes no further connect, wait or close; any later call on
\* the client or transport is made by the caller's cleanup.
C6_SuccessReturnsImmediately ==
    \A u \in Upstreams :
        \A k \in SettledAt(u, "client.connect", Establisher, TRUE) :
            /\ pc[u] = "Connected"
            /\ result[u] = Handle(u)
            /\ \A j \in DOMAIN log[u] : j > k => log[u][j].by # Establisher

\* the second attempt succeeded and the caller has since run cleanup
C6_Witness ==
    \E u \in Upstreams :
        /\ ConnectOutcomes(u) = <<FALSE, TRUE>>
        /\ cpc[u][1] = "Done"

\* C7: connectMetaMcpClient never rejects; when the attempts are exhausted it
\* completes with undefined.
C7_NeverRaises ==
    \A u \in Upstreams :
        /\ pc[u] # "Threw"
        /\ result[u] # Rejected
        /\ count[u] >= retries => (pc[u] = "Failed" /\ result[u] = Undefined)

\* the attempts are exhausted and both intermediate closes had failed
C7_Witness ==
    \E u \in Upstreams :
        /\ pc[u] = "Failed"
        /\ Cardinality(SettledAt(u, "client.close", Establisher, FALSE)) = 2

\* what a run with the handshake outcomes os has settled to, whatever the
\* closes did
ExpectedResult(u, os) ==
    IF os # <<>> /\ os[Len(os)] THEN Handle(u)
    ELSE IF Len(os) = retries THEN Undefined
    ELSE Pending

\* C8: a failure of the intermediate client.close is swallowed: the wait and
\* then the next handshake follow it, the attempt counter counts the failed
\* handshakes only, and the result is decided by the handshake outcomes alone.
C8_CloseFailureSwallowed ==
    \A u \in Upstreams :
        /\ count[u] = Cardinality(SettledAt(u, "client.connect", Establisher, FALSE))
        /\ result[u] = ExpectedResult(u, ConnectOutcomes(u))
        /\ \A k \in SettledAt(u, "client.close", Establisher, FALSE) :
              /\ k + 1 \in DOMAIN log[u]
              /\ log[u][k + 1] = SleepEv(waitFor)
              /\ pc[u] # "Backoff" =>
                    /\ log[u][k + 2] = RetEv("sleep", Establisher, TRUE)
                    /\ log[u][k + 3] = CallEv("client.connect", Establisher)

\* a handle was returned although an intermediate close had failed
C8_Witness ==
    \E u \in Upstreams :
        /\ pc[u] = "Connected"
        /\ SettledAt(u, "client.close", Establisher, FALSE) # {}

\* the state of the establishment sequence, in the terms of the state machine
\* Idle, Connecting, Backoff, Connected, Failed: Backoff covers the
\* best-effort close and the wait
Phase(p) == IF p \in {"Closing", "Backoff"} THEN "Backoff" ELSE p

\* the outcome of the last handshake recorded in the log l
LastHandshakeOk(l) ==
    LET S == {k \in DOMAIN l : l[k].ev = "ret" /\ l[k].op = "client.connect"}
    IN  /\ S # {}
        /\ l[CHOOSE k \in S : \A j \in S : j <= k].ok

C9_Transition(u) ==
    LET from == Phase(pc[u])
        to == Phase(pc'[u])
    IN  \/ to = from
        \/ from = "Idle" /\ to = "Connecting"
        \/ from = "Connecting" /\ to = "Connected" /\ LastHandshakeOk(log'[u])
        \/ /\ from = "Connecting" /\ to = "Backoff"
           /\ ~LastHandshakeOk(log'[u]) /\ count'[u] < retries
        \/ /\ from = "Connecting" /\ to = "Failed"
           /\ ~LastHandshakeOk(log'[u]) /\ count'[u] = retries
        \/ from = "Backoff" /\ to = "Connecting"

\* C9: every run follows Idle -> Connecting -> {Connected | Backoff ->
\* Connecting | Failed}: Backoff only from Connecting after a failed handshake
\* with attempts remaining, Failed only from Connecting with the attempts
\* exhausted, Connected only from Connecting on success; Connected and Failed
\* are terminal.
C9_StateMachine == [][\A u \in Upstreams : C9_Transition(u)]_vars

\* a run went through Backoff twice and ended in Failed
C9_Witness ==
    \E u \in Upstreams :
        /\ pc[u] = "Failed"
        /\ Cardinality(CallsOf(u, "sleep")) = 2


(***************************************************************************)
(* Claims about createMetaMcpClient.                                       *)
(***************************************************************************)
\* C10: createMetaMcpClient never throws: for every Server Parameters value,
\* a url that is not a well-formed URL included, the call returns a result
\* (a transport, or no transport) and raises no exception.
C10_FactoryNeverThrows ==
    created # NotCalled => created.status = "returned"

\* the call was made on Server Parameters of an HTTP type with a url
HttpCall ==
    /\ created # NotCalled
    /\ serverParams.type \in {Some("SSE"), Some("STREAMABLE_HTTP")}
    /\ TruthyChars(serverParams.url)

\* C11: createMetaMcpClient fails fast: when the field the resolved type
\* requires is absent (command for STDIO or an unset type, url for SSE or
\* STREAMABLE_HTTP) it returns no transport.
C11_FailsFastOnMissingFields ==
    LET p == serverParams
        absent == \/ p.type \in {None, Some("STDIO")} /\ p.command = None
                  \/ p.type \in {Some("SSE"), Some("STREAMABLE_HTTP")} /\ p.url = None
    IN  (created # NotCalled /\ absent) =>
            (created.status = "returned" /\ created.transport = None)

\* the Server Parameters for which C12 expects no client and no transport: a
\* type that is set and is none of the three, or an HTTP type without a url
NoTransportCase(p) ==
    \/ TruthyStr(p.type) /\ p.type \notin {Some("STDIO"), Some("SSE"), Some("STREAMABLE_HTTP")}
    \/ p.type \in {Some("SSE"), Some("STREAMABLE_HTTP")} /\ ~TruthyChars(p.url)

\* C12: for a set type that is none of STDIO, SSE, STREAMABLE_HTTP, and for
\* SSE or STREAMABLE_HTTP with a missing or empty url, createMetaMcpClient
\* returns neither a client nor a transport; in every other case it returns
\* both, so a client is returned if and only if a transport is.
C12_BothOrNeither ==
    created # NotCalled =>
        /\ created.status = "returned"
        /\ IF NoTransportCase(serverParams)
           THEN created.client = None /\ created.transport = None
           ELSE created.client # None /\ created.transport # None

\* C13: with type unset, createMetaMcpClient gives what it gives with type
\* STDIO: the subprocess transport with the same launch spec and the same
\* client, whatever the other fields are.
C13_UnsetTypeIsStdio ==
    (created # NotCalled /\ serverParams.type = None) =>
        LET q == [serverParams EXCEPT !.type = Some("STDIO")]
        IN  /\ created = createMetaMcpClient(q, env)
            /\ created.status = "returned"
            /\ created.transport = Some(StdioTransport(q))
            /\ created.client = Some(NewClient)

\* the type is unset while a url and a credential are present
C13_Witness ==
    /\ created # NotCalled
    /\ serverParams.type = None
    /\ TruthyChars(serverParams.url)
    /\ serverParams.oauth_tokens # None
    /\ created.transport # None

\* C14: for SSE or STREAMABLE_HTTP with a url, the transport constructed has
\* Authorization = "Bearer " followed by the access token on every kind of
\* request when oauth_tokens is present, and no headers when it is absent.
C14_BearerOnEveryRequest ==
    (HttpCall /\ created.transport # None) =>
        \A k \in RequestKinds :
            RequestHeaders(created.transport[1], k) =
                IF serverParams.oauth_tokens = None THEN None
                ELSE Some([Authorization |->
                              s_Bearer \o serverParams.oauth_tokens[1].access_token[1]])

\* an event-stream transport was built with the credential tok123
C14_Witness ==
    /\ HttpCall
    /\ created.transport # None
    /\ serverParams.type = Some("SSE")
    /\ serverParams.oauth_tokens = Some([access_token |-> Some(s_tok123)])

\* C15: the presence of oauth_tokens alone decides the header: with an empty
\* access_token the header is attached and is "Bearer " plus nothing, and the
\* call ends as it does with any other token.
C15_EmptyTokenPassedThrough ==
    (HttpCall /\ serverParams.oauth_tokens # None) =>
        LET q == [serverParams EXCEPT !.oauth_tokens = Some([access_token |-> Some(s_tok123)])]
        IN  /\ created.status = createMetaMcpClient(q, env).status
            /\ created.transport # None =>
                  /\ created.transport[1].requestInitHeaders # None
                  /\ serverParams.oauth_tokens[1].access_token = Some(<<>>) =>
                        created.transport[1].requestInitHeaders[1].Authorization = s_Bearer

\* a transport was built from a credential whose access_token is empty
C15_Witness ==
    /\ HttpCall
    /\ created.transport # None
    /\ serverParams.oauth_tokens = Some([access_token |-> Some(<<>>)])


(***************************************************************************)
(* Credentials across calls of the factory.                                *)
(***************************************************************************)
\* call c returned a network transport
BuiltHttpTransport(c) ==
    /\ callResult[c] # NotCalled
    /\ callResult[c].transport # None
    /\ callResult[c].transport[1].kind \in {"sse", "streamableHttp"}

\* the header map the transport of call c puts on its requests now: the
\* content of the headers object it holds, none when it holds no object
HeadersSentBy(c) == IF callRef[c] = None THEN None ELSE heap[callRef[c][1]]

\* C16: after any calls of createMetaMcpClient in any order, the headers of
\* the transport each call built are determined by the oauth_tokens of that
\* call alone: Authorization = "Bearer " plus its own token, or no headers
\* when it had none; no other call's credential shows in them.
C16_NoCredentialLeak ==
    \A c \in FactoryCalls :
        BuiltHttpTransport(c) =>
            HeadersSentBy(c) =
                IF callParams[c].oauth_tokens = None THEN None
                ELSE Some([Authorization |->
                              s_Bearer \o callParams[c].oauth_tokens[1].access_token[1]])

\* two network transports were built one after the other from different
\* credentials
C16_Witness ==
    /\ \A c \in FactoryCalls : BuiltHttpTransport(c)
    /\ callParams[1].oauth_tokens = Some([access_token |-> Some(s_tok123)])
    /\ callParams[2].oauth_tokens = Some([access_token |-> Some(s_tok456)])
    /\ HeadersSentBy(1) # HeadersSentBy(2)

(***************************************************************************)
(* The normalizer.                                                         *)
(***************************************************************************)
\* the string `sub` occurs in the string s
Contains(s, sub) ==
    \E k \in 0..(Len(s) - Len(sub)) : SubSeq(s, k + 1, k + Len(sub)) = sub

\* the call transformDockerUrl(urlIn) was made
Transformed == urlOut # None

\* the value of the environment variable the call read was "true"
FlagOn == env = Some("true")

\* urlIn is an http URL that `new URL` accepts
HttpUrlIn == IsPrefix(s_httpSlashes, urlIn) /\ CanParseUrl(urlIn)

\* the components of a URL with a special scheme, as `new URL` splits it
UrlSchemeOf(s) == SubSeq(s, 1, FirstIn(s, {":"}) - 1)
UrlAfterScheme(s) == StripSlashes(Drop(s, FirstIn(s, {":"})))
UrlPortOf(s) == PortOf(UrlAfterScheme(s))
UrlPathAndQueryOf(s) == Drop(UrlAfterScheme(s), Len(AuthorityOf(UrlAfterScheme(s))))

\* C17: when the flag is "true" and the input contains `localhost` or
\* `127.0.0.1`, the string transformDockerUrl returns contains neither of the
\* two literals.
C17_NoLoopbackLeft ==
    (Transformed /\ FlagOn
        /\ (Contains(urlIn, s_localhost) \/ Contains(urlIn, s_loopback)))
    => /\ ~Contains(urlOut[1], s_localhost)
       /\ ~Contains(urlOut[1], s_loopback)

\* C18: when the flag is "true", the output of transformDockerUrl on an http
\* URL is a URL with the scheme, the port and the path and query of the
\* input: only the host token changes.
C18_OnlyHostChanges ==
    (Transformed /\ FlagOn /\ HttpUrlIn)
    => /\ CanParseUrl(urlOut[1])
       /\ UrlSchemeOf(urlOut[1]) = UrlSchemeOf(urlIn)
       /\ UrlPortOf(urlOut[1]) = UrlPortOf(urlIn)
       /\ UrlPathAndQueryOf(urlOut[1]) = UrlPathAndQueryOf(urlIn)

\* C19: when the value of the flag the call reads is not "true" (unset, or
\* another string), transformDockerUrl returns its input, character for
\* character.
C19_FlagOffIsIdentity ==
    (Transformed /\ ~FlagOn) => urlOut = Some(urlIn)

C19_Witness ==
    /\ Transformed
    /\ env = Some("false")
    /\ Contains(urlIn, s_localhost)
    /\ urlOut = Some(urlIn)

\* C20: the toggle is fixed when the process starts: a call of
\* transformDockerUrl returns what the value of the variable at the start
\* gives, whatever was assigned to the variable since.
C20_ToggleReadOnceAtStart ==
    Transformed => urlOut = Some(transformDockerUrl(urlIn, envAtStart))

(***************************************************************************)
(* The branches of createMetaMcpClient.                                    *)
(***************************************************************************)
\* C21: for type SSE or STREAMABLE_HTTP with a url, createMetaMcpClient
\* builds a transport, event-stream for SSE and streamable for
\* STREAMABLE_HTTP, whose target address is transformDockerUrl(url).
C21_HttpTransportTargetsTransformedUrl ==
    HttpCall =>
        /\ created.transport # None
        /\ created.transport[1].kind =
              (IF serverParams.type = Some("SSE") THEN "sse" ELSE "streamableHttp")
        /\ created.transport[1].url = Some(transformDockerUrl(serverParams.url[1], env))

\* C22: for type STDIO or an unset type, createMetaMcpClient returns a
\* subprocess transport and makes no call of transformDockerUrl, whatever the
\* flag and whether or not a url is present.
C22_StdioNeverNormalizes ==
    (created # NotCalled /\ serverParams.type \in {None, Some("STDIO")}) =>
        /\ created.transport # None
        /\ created.transport[1].kind = "stdio"
        /\ created.transport[1].url = None
        /\ urlOut = None

\* a STDIO call was made with a localhost url present and the flag "true"
C22_Witness ==
    /\ created # NotCalled
    /\ serverParams.type = Some("STDIO")
    /\ serverParams.url # None
    /\ Contains(serverParams.url[1], s_localhost)
    /\ env = Some("true")
    /\ created.transport # None
    /\ urlOut = None

(***************************************************************************)
(* Runs of connectMetaMcpClient for several upstreams.                     *)
(***************************************************************************)
\* the number of handshakes of pair u that failed
FailedHandshakes(u) == Cardinality(SettledAt(u, "client.connect", Establisher, FALSE))

\* the last handshake of pair u succeeded
HandshakeSucceeded(u) ==
    ConnectOutcomes(u) # <<>> /\ ConnectOutcomes(u)[Len(ConnectOutcomes(u))]

\* C23: when connectMetaMcpClient runs concurrently for distinct pairs, in
\* every interleaving the result of each run, the number of its attempts and
\* the closes issued on its pair are given by the handshake results of its
\* own pair; a run that exhausted its retries neither keeps another from its
\* handle nor closes the other's client or transport.
C23_RunsAreIndependent ==
    \A u \in Upstreams :
        /\ result[u] = ExpectedResult(u, ConnectOutcomes(u))
        /\ Cardinality(CallsOf(u, "client.connect")) =
              Len(ConnectOutcomes(u)) + (IF pc[u] = "Connecting" THEN 1 ELSE 0)
        /\ Cardinality(CallsOf(u, "client.close")) =
              (IF FailedHandshakes(u) < retries THEN FailedHandshakes(u) ELSE retries - 1)
        /\ CallsOf(u, "transport.close") = {}
        /\ \A v \in Upstreams \ {u} :
              (pc[v] = "Failed" /\ HandshakeSucceeded(u)) =>
                  (pc[u] = "Connected" /\ result[u] = Handle(u))

\* one upstream exhausted its retries and another connected at its first
\* attempt, with no close on its pair
C23_Witness ==
    \E u, v \in Upstreams :
        /\ u # v
        /\ pc[v] = "Failed"
        /\ ConnectOutcomes(v) = <<FALSE, FALSE, FALSE>>
        /\ pc[u] = "Connected"
        /\ ConnectOutcomes(u) = <<TRUE>>
        /\ CallsOf(u, "client.close") = {}

\* C24: every failed handshake attempt produces one log line, and the line
\* carries the name of the upstream whose connection failed.
C24_FailureLogNamesUpstream ==
    \A u \in Upstreams :
        /\ Len(consoleErrors[u]) = FailedHandshakes(u)
        /\ \A k \in DOMAIN consoleErrors[u] :
              \E j \in DOMAIN consoleErrors[u][k] : consoleErrors[u][k][j] = UpstreamName(u)

(***************************************************************************)
(* The objects and the order of the calls.                                 *)
(***************************************************************************)
\* the handshakes run u has issued, by its own counters: the failed ones and
\* the one pending or resolved
AttemptsOf(u) == count[u] + (IF pc[u] \in {"Connecting", "Connected"} THEN 1 ELSE 0)

\* the invocations of the cleanup of handle u the caller has made
InvocationsMade(u) == {i \in Invocations : cpc[u][i] # "NotCalled"}

\* C25: within one call of connectMetaMcpClient every handshake, the first
\* and the retries, is made on the client and transport passed in: nothing
\* is constructed between attempts, the returned handle holds that client
\* and its cleanup closes that transport.
C25_SameObjectsThroughout ==
    \A u \in Upstreams :
        /\ pc[u] = "Idle" => log[u] = <<>>
        /\ Cardinality(CallsOf(u, "client.connect")) = AttemptsOf(u)
        /\ pc[u] = "Connected" => (result[u].kind = "handle" /\ result[u].client = u)
        /\ Cardinality(CleanupCallsOf(u, "transport.close")) = Cardinality(InvocationsMade(u))

\* the third attempt on the pair succeeded and its cleanup is under way
C25_Witness ==
    \E u \in Upstreams :
        /\ ConnectOutcomes(u) = <<FALSE, FALSE, TRUE>>
        /\ result[u].kind = "handle"
        /\ cpc[u][1] = "ClientClosing"

\* C26: cleanup closes the transport first and the client second: in every
\* invocation client.close is called only after that invocation's call of
\* transport.close has completed.
C26_TransportBeforeClient ==
    \A u \in Upstreams : \A i \in Invocations :
        \A k \in CallsOf(u, "client.close") :
            log[u][k].by = i =>
                \E j \in 1..(k - 1), ok \in BOOLEAN : log[u][j] = RetEv("transport.close", i, ok)

\* an invocation of cleanup ran to its end
C26_Witness ==
    \E u \in Upstreams :
        /\ cpc[u][1] = "Done"
        /\ Cardinality(CleanupCallsOf(u, "client.close")) = 1

\* the calls of a run that fails three times
ExhaustedOps ==
    <<"client.connect", "client.close", "sleep",
      "client.connect", "client.close", "sleep", "client.connect">>

\* C27: connectMetaMcpClient returns no handle exactly when three handshakes
\* were made and all three failed; each of the first two failures is followed
\* by a close, then a wait, then the next attempt, and the third failure by
\* the return, with no close and no wait.
C27_NoHandleIffThreeFailures ==
    \A u \in Upstreams :
        /\ result[u] = Undefined <=> ConnectOutcomes(u) = <<FALSE, FALSE, FALSE>>
        /\ Len(EstablisherOps(u)) <= Len(ExhaustedOps)
        /\ EstablisherOps(u) = SubSeq(ExhaustedOps, 1, Len(EstablisherOps(u)))
        /\ pc[u] = "Failed" =>
              /\ EstablisherOps(u) = ExhaustedOps
              /\ log[u][Len(log[u])] = RetEv("client.connect", Establisher, FALSE)

\* a run gave up after three failures, both intermediate closes having
\* succeeded
C27_Witness ==
    \E u \in Upstreams :
        /\ result[u] = Undefined
        /\ EstablisherOps(u) = ExhaustedOps
        /\ Cardinality(SettledAt(u, "client.close", Establisher, TRUE)) = 2

(***************************************************************************)
(* Termination.                                                            *)
(***************************************************************************)
\* run u has ended
Terminated(u) == pc[u] \in {"Connected", "Failed"}

\* C28: provided every client.connect and client.close settles, every call
\* of connectMetaMcpClient ends, in Connected or in Failed, after at most 3
\* handshakes and at most 2 waits.
C28_EventuallyTerminates ==
    /\ \A u \in SingleRun : (pc[u] # "Idle") ~> Terminated(u)
    /\ [](\A u \in SingleRun :
            /\ Cardinality(CallsOf(u, "client.connect")) <= 3
            /\ Cardinality(CallsOf(u, "sleep")) <= 2)

\* a run ended after three handshakes and two waits, one of the intermediate
\* closes having failed
C28_Witness ==
    \E u \in SingleRun :
        /\ Terminated(u)
        /\ Cardinality(CallsOf(u, "client.connect")) = 3
        /\ Cardinality(CallsOf(u, "sleep")) = 2
        /\ Cardinality(SettledAt(u, "client.close", Establisher, FALSE)) = 1

\* C29: when transport.close fails during cleanup, the failure reaches the
\* caller of cleanup and client.close is not called in that invocation.
C29_TransportCloseFailurePropagates ==
    \A u \in Upstreams : \A i \in Invocations :
        SettledAt(u, "transport.close", i, FALSE) # {} =>
            /\ cpc[u][i] = "Raised"
            /\ \A k \in CallsOf(u, "client.close") : log[u][k].by # i

\* an invocation of cleanup ended with the failure of transport.close
C29_Witness ==
    \E u \in Upstreams :
        /\ SettledAt(u, "transport.close", 1, FALSE) # {}
        /\ cpc[u][1] = "Raised"
        /\ CleanupCallsOf(u, "client.close") = {}

\* C30: with the flag "true", transformDockerUrl is idempotent: applied to
\* its own output it returns that output.
C30_TransformIdempotent ==
    (Transformed /\ FlagOn) => transformDockerUrl(urlOut[1], env) = urlOut[1]

=============================================================================
